---- MODULE Spec2Model ----
(***************************************************************************)
(* Model of boxFilterNPP/imageCropper.cu: a batch tool that, for each      *)
(* input PPM, converts RGB to grayscale, crops a centred square and        *)
(* remaps shadows/highlights on the GPU, then writes a PGM.                *)
(*                                                                         *)
(* The host (main) is a sequential program counter; the device is the      *)
(* default CUDA stream: a FIFO of launched kernels, each a set of thread   *)
(* blocks still to run.  A thread block is the unit of device scheduling;  *)
(* the work items of one block touch pairwise distinct cells.              *)
(***************************************************************************)
EXTENDS Integers, Sequences, FiniteSets, TLC

(* ------------------------------ bounds --------------------------------- *)
\* number of entries of inputFiles the model runs through
NumImages == 2
\* small image sides; Dims adds one side that needs a second thread block
MaxDim == 3

(* ------------------------- program constants --------------------------- *)
BlockDim == 16
ShadowLimit == 128
ByteMax == 255
\* float literals, in units of 2^-27 (every float the kernels compute is a
\* multiple of 2^-27 below 2^9):  mantissa * 2^(exponent + 27)
GainShadow == 147639504
GainHighlight == 140928608
WeightR == 40131100
WeightG == 78785808
WeightB == 15300821

\* an indeterminate byte (storage that was never written)
Undef == -1

Bytes == 0..ByteMax
Dims == (1..MaxDim) \cup {BlockDim + 1}
Images == 1..NumImages
HostBufs == {"h_rgb", "h_gray", "h_dst"}
DevBufs == {"d_rgb", "d_gray", "d_dst"}

(* ------------------- IEEE binary32 on fixed-point limbs ---------------- *)
\* a non-negative value is [hi, lo], worth (hi * 2^15 + lo) * 2^-27
Limb == 32768

RECURSIVE BitLen(_)
BitLen(n) == IF n = 0 THEN 0 ELSE 1 + BitLen(n \div 2)

RECURSIVE Pow2(_)
Pow2(k) == IF k = 0 THEN 1 ELSE 2 * Pow2(k - 1)

\* round to 24 significant bits, nearest, ties to even
FxRound(f) ==
    LET bits == IF f.hi > 0 THEN BitLen(f.hi) + 15 ELSE BitLen(f.lo)
        s == bits - 24
    IN  IF s <= 0 THEN f
        ELSE LET p == Pow2(s)
                 q == f.lo \div p
                 rem == f.lo % p
                 half == p \div 2
                 up == rem > half \/ (rem = half /\ q % 2 = 1)
                 lo2 == (IF up THEN q + 1 ELSE q) * p
             IN  IF lo2 >= Limb THEN [hi |-> f.hi + 1, lo |-> lo2 - Limb]
                 ELSE [hi |-> f.hi, lo |-> lo2]

\* exact product of a byte and a float literal
FxMulExact(n, c) ==
    LET a == n * (c \div Limb)
        b == n * (c % Limb)
    IN  [hi |-> a + b \div Limb, lo |-> b % Limb]

\* mul.f32
FxMul(n, c) == FxRound(FxMulExact(n, c))

FxAddExact(f, g) ==
    LET l == f.lo + g.lo
    IN  [hi |-> f.hi + g.hi + l \div Limb, lo |-> l % Limb]

\* add.f32
FxAdd(f, g) == FxRound(FxAddExact(f, g))

\* fma.f32 with a byte factor
FxFma(n, c, g) == FxRound(FxAddExact(FxMulExact(n, c), g))

\* float to integer, toward zero
FxTrunc(f) == f.hi \div 4096

(* ------------------------------ kernels -------------------------------- *)
\* line 22: 0.299f * r + 0.587f * g + 0.114f * b, stored to unsigned char.
\* fmad: whether the build contracts a*b + c into one fused multiply-add.
Luma(r, g, b, fmad) ==
    IF r = Undef \/ g = Undef \/ b = Undef THEN Undef
    ELSE IF fmad
         THEN FxTrunc(FxFma(b, WeightB, FxFma(g, WeightG, FxMul(r, WeightR))))
         ELSE FxTrunc(FxAdd(FxAdd(FxMul(r, WeightR), FxMul(g, WeightG)),
                            FxMul(b, WeightB)))

F255 == [hi |-> ByteMax * 4096, lo |-> 0]
F0 == [hi |-> 0, lo |-> 0]

FxLess(f, g) == f.hi < g.hi \/ (f.hi = g.hi /\ f.lo < g.lo)
FxMin(f, g) == IF FxLess(g, f) THEN g ELSE f
FxMax(f, g) == IF FxLess(f, g) THEN g ELSE f

\* static_cast<unsigned char>(float).  A value of 256 or more does not fit
\* the destination: the conversion is undefined, and a build either
\* saturates (cvt.rzi.u8.f32) or keeps the low byte of the 32-bit result.
FloatToByte(f, cvt) ==
    LET t == FxTrunc(f)
    IN  IF t <= ByteMax THEN t
        ELSE IF cvt = "sat" THEN ByteMax ELSE t % (ByteMax + 1)

\* the boundary value taken for a highlight
IsShadowStrict(pixel) == pixel < ShadowLimit

\* lines 46-50
IsShadow(pixel) == pixel <= ShadowLimit

ToneValue(pixel, cvt) ==
    IF pixel = Undef THEN Undef
    ELSE IF IsShadow(pixel)
         THEN FloatToByte(FxMin(F255, FxMul(pixel, GainShadow)), cvt)
         ELSE FloatToByte(FxMax(F0, FxMul(pixel, GainHighlight)), cvt)

\* cropKernel guarded by the source size instead of the destination size
CropGuardSrc(x, y, a) == x < a.srcWidth /\ y < a.srcHeight

\* lines 17, 31, 44: the work-item guards
GrayGuard(x, y, a) == x < a.width /\ y < a.height
CropGuard(x, y, a) == x < a.dstWidth /\ y < a.dstHeight
ToneGuard(x, y, a) == x < a.width /\ y < a.height

\* the source row stride taken from the destination
CropSrcIdxDstStride(x, y, a) == (y + a.offsetY) * a.dstWidth + (x + a.offsetX)

\* lines 15, 18, 32, 33, 42: the index arithmetic
GrayIdx(x, y, a) == y * a.width + x
CropSrcIdx(x, y, a) == (y + a.offsetY) * a.srcWidth + (x + a.offsetX)
CropDstIdx(x, y, a) == y * a.dstWidth + x
ToneIdx(x, y, a) == y * a.width + x

\* line 124: (n + blockSize - 1) / blockSize
GridDim(n) == (n + BlockDim - 1) \div BlockDim
Blocks(grid) == (0..(grid[1] - 1)) \X (0..(grid[2] - 1))
\* blockIdx * blockDim + threadIdx, for the threads of one block
Threads(b) ==
    {<<b[1] * BlockDim + tx, b[2] * BlockDim + ty>> :
        tx \in 0..(BlockDim - 1), ty \in 0..(BlockDim - 1)}

(* ------------------------------- state --------------------------------- *)
VARIABLES
    pc,         \* the statement of main executed next
    cur,        \* index into inputFiles of the image in flight
    status,     \* "running", or the exit status "success" / "failure"
    dirOk,      \* whether processed_images exists after mkdir
    build,      \* [fmad, cvt]: how the build compiles the float code
    width, height,
    dstWidth, dstHeight, offset,
    live,       \* the buffers allocated and not yet released
    mem,        \* contents of each buffer, indexed from 0
    stream,     \* kernels launched on the default stream, oldest first
    prog,       \* per kernel of this image, the thread blocks that ran
    acc,        \* the memory accesses of the thread block that ran last
    loads,      \* the images loadPPM was called for, in order
    written,    \* the images whose output file was written
    aborted     \* the image whose failure ended the batch

vars == <<pc, cur, status, dirOk, build, width, height, dstWidth, dstHeight,
          offset, live, mem, stream, prog, acc, loads, written, aborted>>

Kernels == {"gray", "crop", "tone"}
NoMem == [b \in HostBufs \cup DevBufs |-> <<>>]
NoProg == [k \in Kernels |-> {}]
Builds == [fmad : BOOLEAN, cvt : {"sat", "wrap"}]

\* new unsigned char[n] / cudaMalloc(n): n bytes, none of them written
Fresh(n) == [i \in 0..(n - 1) |-> Undef]
Size(buf) == Cardinality(DOMAIN mem[buf])
Read(buf, idx) == IF idx \in DOMAIN mem[buf] THEN mem[buf][idx] ELSE Undef
\* ws: the <<index, value>> pairs the work items of a block store
Store(f, ws) ==
    LET idxs == {w[1] : w \in ws}
    IN  [i \in DOMAIN f |->
            IF i \in idxs THEN (CHOOSE w \in ws : w[1] = i)[2] ELSE f[i]]

Init ==
    /\ pc = "mkdir"
    /\ cur = 1
    /\ status = "running"
    /\ dirOk = FALSE
    /\ build \in Builds
    /\ width = 0 /\ height = 0
    /\ dstWidth = 0 /\ dstHeight = 0 /\ offset = 0
    /\ live = {}
    /\ mem = NoMem
    /\ stream = <<>>
    /\ prog = NoProg
    /\ acc = {}
    /\ loads = <<>>
    /\ written = {}
    /\ aborted = {}

(* ------------------------------ the files ------------------------------ *)
\* pixel data of an input file: one flat value, or a gradient whose
\* pixel p has R = G = B = p mod 256
FlatValues == {100, 255}
Gradient == ByteMax + 1
Fills == FlatValues \cup {Gradient}
FileByte(fill, k) == IF fill = Gradient THEN (k \div 3) % (ByteMax + 1) ELSE fill
\* what follows the magic: a full header and all the data; a full header
\* and one data byte too few; or width and height and no numeric max value
Bodies == {"full", "short", "badmax"}
\* lines 67-74: the bytes file.read stores.  After a failed extraction of
\* maxVal the stream is in the fail state and ignore/read do nothing.
BytesRead(body, n) ==
    CASE body = "full" -> n
      [] body = "short" -> n - 1
      [] body = "badmax" -> 0

(* --------------------------- leaving main ------------------------------ *)
\* a failure that only skips the image in flight
CatchSkip ==
    /\ pc' = "loop"
    /\ status' = status
    /\ aborted' = aborted \cup {cur}

\* lines 162-164: the catch clause prints the message and exits
Catch ==
    /\ pc' = "exit"
    /\ status' = "failure"
    /\ aborted' = aborted \cup {cur}

\* checkCudaErrors on a failed call: helper_cuda.h's check prints and calls
\* exit(EXIT_FAILURE); releases that define DEVICE_RESET call
\* cudaDeviceReset first, which frees the device allocations
CudaFail ==
    /\ pc' = "exit"
    /\ status' = "failure"
    /\ aborted' = aborted \cup {cur}
    /\ live' \in {live, live \ DevBufs}
    /\ stream' = <<>>
    /\ UNCHANGED <<cur, dirOk, build, width, height, dstWidth, dstHeight,
                   offset, mem, prog, acc, loads, written>>

(* ------------------------------- main ---------------------------------- *)
\* line 106: the result of mkdir is not looked at
Mkdir ==
    /\ pc = "mkdir"
    /\ dirOk' \in BOOLEAN
    /\ pc' = "load"
    /\ UNCHANGED <<cur, status, build, width, height, dstWidth, dstHeight,
                   offset, live, mem, stream, prog, acc, loads, written, aborted>>

\* lines 56-65, 73: the file cannot be opened, its magic is not P6, or the
\* new-expression throws
LoadPPMThrow ==
    /\ pc = "load"
    /\ loads' = Append(loads, cur)
    /\ Catch
    /\ UNCHANGED <<cur, dirOk, build, width, height, dstWidth, dstHeight,
                   offset, live, mem, stream, prog, acc, written>>

\* lines 67-76, after the open and the magic succeeded
LoadPPM ==
    /\ pc = "load"
    /\ \E w \in Dims, h \in Dims, fill \in Fills, body \in Bodies :
          /\ width' = w
          /\ height' = h
          /\ mem' = [mem EXCEPT !["h_rgb"] =
                        [k \in 0..(w * h * 3 - 1) |->
                            IF k < BytesRead(body, w * h * 3)
                            THEN FileByte(fill, k) ELSE Undef]]
    /\ live' = live \cup {"h_rgb"}
    /\ loads' = Append(loads, cur)
    /\ pc' = "new_gray"
    /\ UNCHANGED <<cur, status, dirOk, build, dstWidth, dstHeight, offset,
                   stream, prog, acc, written, aborted>>

\* a new-expression that throws std::bad_alloc (lines 114, 136)
BadAlloc ==
    /\ pc \in {"new_gray", "new_dst"}
    /\ Catch
    /\ UNCHANGED <<cur, dirOk, build, width, height, dstWidth, dstHeight,
                   offset, live, mem, stream, prog, acc, loads, written>>

\* line 114
NewGray ==
    /\ pc = "new_gray"
    /\ mem' = [mem EXCEPT !["h_gray"] = Fresh(width * height)]
    /\ live' = live \cup {"h_gray"}
    /\ pc' = "malloc_rgb"
    /\ UNCHANGED <<cur, status, dirOk, build, width, height, dstWidth,
                   dstHeight, offset, stream, prog, acc, loads, written, aborted>>

\* lines 118, 119, 139: cudaMalloc
CudaMalloc ==
    /\ pc \in {"malloc_rgb", "malloc_gray", "malloc_dst"}
    /\ LET buf == CASE pc = "malloc_rgb" -> "d_rgb"
                    [] pc = "malloc_gray" -> "d_gray"
                    [] pc = "malloc_dst" -> "d_dst"
           n == CASE pc = "malloc_rgb" -> width * height * 3
                  [] pc = "malloc_gray" -> width * height
                  [] pc = "malloc_dst" -> dstWidth * dstHeight
       IN  /\ mem' = [mem EXCEPT ![buf] = Fresh(n)]
           /\ live' = live \cup {buf}
    /\ pc' = CASE pc = "malloc_rgb" -> "malloc_gray"
               [] pc = "malloc_gray" -> "h2d_rgb"
               [] pc = "malloc_dst" -> "h2d_gray"
    /\ UNCHANGED <<cur, status, dirOk, build, width, height, dstWidth,
                   dstHeight, offset, stream, prog, acc, loads, written, aborted>>

CudaMallocFail ==
    /\ pc \in {"malloc_rgb", "malloc_gray", "malloc_dst"}
    /\ CudaFail

\* cudaMemcpy of n bytes; on the default stream it starts only when every
\* kernel launched before it has finished
Memcpy(dst, src, n) ==
    [i \in DOMAIN mem[dst] |-> IF i < n THEN Read(src, i) ELSE mem[dst][i]]

\* lines 121, 127, 140, 147
CudaMemcpy ==
    /\ pc \in {"h2d_rgb", "d2h_gray", "h2d_gray", "d2h_dst"}
    /\ stream = <<>>
    /\ mem' = CASE pc = "h2d_rgb" ->
                     [mem EXCEPT !["d_rgb"] = Memcpy("d_rgb", "h_rgb", width * height * 3)]
                [] pc = "d2h_gray" ->
                     [mem EXCEPT !["h_gray"] = Memcpy("h_gray", "d_gray", width * height)]
                [] pc = "h2d_gray" ->
                     [mem EXCEPT !["d_gray"] = Memcpy("d_gray", "h_gray", width * height)]
                [] pc = "d2h_dst" ->
                     [mem EXCEPT !["h_dst"] = Memcpy("h_dst", "d_dst", dstWidth * dstHeight)]
    /\ pc' = CASE pc = "h2d_rgb" -> "launch_gray"
               [] pc = "d2h_gray" -> "new_dst"
               [] pc = "h2d_gray" -> "launch_crop"
               [] pc = "d2h_dst" -> "save"
    /\ UNCHANGED <<cur, status, dirOk, build, width, height, dstWidth,
                   dstHeight, offset, live, stream, prog, acc, loads, written,
                   aborted>>

CudaMemcpyFail ==
    /\ pc \in {"h2d_rgb", "d2h_gray", "h2d_gray", "d2h_dst"}
    /\ stream = <<>>
    /\ CudaFail

\* line 124
GridSize == <<GridDim(width), GridDim(height)>>

Launch(k, a) ==
    stream' = Append(stream, [k |-> k, a |-> a, pending |-> Blocks(GridSize)])

\* lines 123-125
LaunchGray ==
    /\ pc = "launch_gray"
    /\ Launch("gray", [width |-> width, height |-> height])
    /\ pc' = "d2h_gray"
    /\ UNCHANGED <<cur, status, dirOk, build, width, height, dstWidth,
                   dstHeight, offset, live, mem, prog, acc, loads, written,
                   aborted>>

Min(a, b) == IF a < b THEN a ELSE b
Max(a, b) == IF a > b THEN a ELSE b

\* lines 129-136
NewDst ==
    /\ pc = "new_dst"
    /\ LET shorterSide == Min(width, height)
           longerSide == Max(width, height)
       IN  /\ offset' = (longerSide - shorterSide) \div 2
           /\ dstWidth' = shorterSide
           /\ dstHeight' = shorterSide
           /\ mem' = [mem EXCEPT !["h_dst"] = Fresh(shorterSide * shorterSide)]
    /\ live' = live \cup {"h_dst"}
    /\ pc' = "malloc_dst"
    /\ UNCHANGED <<cur, status, dirOk, build, width, height, stream, prog,
                   acc, loads, written, aborted>>

\* line 142: the arguments cropKernel is launched with
CropArgs ==
    [srcWidth |-> width, srcHeight |-> height,
     dstWidth |-> dstWidth, dstHeight |-> dstHeight,
     offsetX |-> offset, offsetY |-> 0]

LaunchCrop ==
    /\ pc = "launch_crop"
    /\ Launch("crop", CropArgs)
    /\ pc' = "launch_tone"
    /\ UNCHANGED <<cur, status, dirOk, build, width, height, dstWidth,
                   dstHeight, offset, live, mem, prog, acc, loads, written,
                   aborted>>

\* line 145
LaunchTone ==
    /\ pc = "launch_tone"
    /\ Launch("tone", [width |-> dstWidth, height |-> dstHeight])
    /\ pc' = "d2h_dst"
    /\ UNCHANGED <<cur, status, dirOk, build, width, height, dstWidth,
                   dstHeight, offset, live, mem, prog, acc, loads, written,
                   aborted>>

\* lines 81-89, 150: the output file opens and the image is written
SavePGM ==
    /\ pc = "save"
    /\ dirOk
    /\ written' = written \cup {cur}
    /\ pc' = "free"
    /\ UNCHANGED <<cur, status, dirOk, build, width, height, dstWidth,
                   dstHeight, offset, live, mem, stream, prog, acc, loads,
                   aborted>>

\* lines 82-84: the output file cannot be opened
SavePGMThrow ==
    /\ pc = "save"
    /\ Catch
    /\ UNCHANGED <<cur, dirOk, build, width, height, dstWidth, dstHeight,
                   offset, live, mem, stream, prog, acc, loads, written>>

\* the release of d_dst forgotten
FreeLeak ==
    /\ pc = "free"
    /\ live' = live \ (HostBufs \cup {"d_rgb", "d_gray"})
    /\ mem' = [mem EXCEPT !["h_rgb"] = <<>>, !["h_gray"] = <<>>, !["h_dst"] = <<>>,
                          !["d_rgb"] = <<>>, !["d_gray"] = <<>>]
    /\ width' = 0 /\ height' = 0
    /\ dstWidth' = 0 /\ dstHeight' = 0 /\ offset' = 0
    /\ prog' = NoProg
    /\ acc' = {}
    /\ pc' = "loop"
    /\ UNCHANGED <<cur, status, dirOk, build, stream, loads, written, aborted>>

\* lines 153-159: the six releases, then the locals go out of scope
Free ==
    /\ pc = "free"
    /\ live' = live \ (HostBufs \cup DevBufs)
    /\ mem' = NoMem
    /\ width' = 0 /\ height' = 0
    /\ dstWidth' = 0 /\ dstHeight' = 0 /\ offset' = 0
    /\ prog' = NoProg
    /\ acc' = {}
    /\ pc' = "loop"
    /\ UNCHANGED <<cur, status, dirOk, build, stream, loads, written, aborted>>

\* line 109: the next entry of inputFiles
NextImage ==
    /\ pc = "loop"
    /\ cur < NumImages
    /\ cur' = cur + 1
    /\ pc' = "load"
    /\ UNCHANGED <<status, dirOk, build, width, height, dstWidth, dstHeight,
                   offset, live, mem, stream, prog, acc, loads, written, aborted>>

\* line 161
ExitSuccess ==
    /\ pc = "loop"
    /\ cur = NumImages
    /\ pc' = "exit"
    /\ status' = "success"
    /\ UNCHANGED <<cur, dirOk, build, width, height, dstWidth, dstHeight,
                   offset, live, mem, stream, prog, acc, loads, written, aborted>>

(* ------------------------------ the device ----------------------------- *)
\* kernels of one stream running concurrently
RunnableAny == 1..Len(stream)

\* the kernel whose blocks the device may run: the oldest one on the stream
Runnable == IF stream = <<>> THEN {} ELSE {1}

\* block b of kernel n has run
Retire(n, b) ==
    IF stream[n].pending = {b}
    THEN [i \in 1..(Len(stream) - 1) |-> IF i < n THEN stream[i] ELSE stream[i + 1]]
    ELSE [stream EXCEPT ![n].pending = @ \ {b}]

Access(k, t, buf, idx) == [k |-> k, x |-> t[1], y |-> t[2], buf |-> buf, idx |-> idx]

\* lines 12-24
RunGrayBlock ==
    \E n \in Runnable : \E b \in stream[n].pending :
        /\ stream[n].k = "gray"
        /\ LET a == stream[n].a
               ts == {t \in Threads(b) : GrayGuard(t[1], t[2], a)}
               ws == {<<GrayIdx(t[1], t[2], a),
                        Luma(Read("d_rgb", GrayIdx(t[1], t[2], a) * 3),
                             Read("d_rgb", GrayIdx(t[1], t[2], a) * 3 + 1),
                             Read("d_rgb", GrayIdx(t[1], t[2], a) * 3 + 2),
                             build.fmad)>> : t \in ts}
           IN  /\ mem' = [mem EXCEPT !["d_gray"] = Store(@, ws)]
               /\ acc' = UNION {{Access("gray", t, "d_rgb", GrayIdx(t[1], t[2], a) * 3),
                                 Access("gray", t, "d_rgb", GrayIdx(t[1], t[2], a) * 3 + 1),
                                 Access("gray", t, "d_rgb", GrayIdx(t[1], t[2], a) * 3 + 2),
                                 Access("gray", t, "d_gray", GrayIdx(t[1], t[2], a))} :
                                t \in ts}
        /\ prog' = [prog EXCEPT !["gray"] = @ \cup {b}]
        /\ stream' = Retire(n, b)
        /\ UNCHANGED <<pc, cur, status, dirOk, build, width, height, dstWidth,
                       dstHeight, offset, live, loads, written, aborted>>

\* lines 27-36
RunCropBlock ==
    \E n \in Runnable : \E b \in stream[n].pending :
        /\ stream[n].k = "crop"
        /\ LET a == stream[n].a
               ts == {t \in Threads(b) : CropGuard(t[1], t[2], a)}
               ws == {<<CropDstIdx(t[1], t[2], a),
                        Read("d_gray", CropSrcIdx(t[1], t[2], a))>> : t \in ts}
           IN  /\ mem' = [mem EXCEPT !["d_dst"] = Store(@, ws)]
               /\ acc' = UNION {{Access("crop", t, "d_gray", CropSrcIdx(t[1], t[2], a)),
                                 Access("crop", t, "d_dst", CropDstIdx(t[1], t[2], a))} :
                                t \in ts}
        /\ prog' = [prog EXCEPT !["crop"] = @ \cup {b}]
        /\ stream' = Retire(n, b)
        /\ UNCHANGED <<pc, cur, status, dirOk, build, width, height, dstWidth,
                       dstHeight, offset, live, loads, written, aborted>>

\* lines 39-52
RunToneBlock ==
    \E n \in Runnable : \E b \in stream[n].pending :
        /\ stream[n].k = "tone"
        /\ LET a == stream[n].a
               ts == {t \in Threads(b) : ToneGuard(t[1], t[2], a)}
               ws == {<<ToneIdx(t[1], t[2], a),
                        ToneValue(Read("d_dst", ToneIdx(t[1], t[2], a)), build.cvt)>> :
                      t \in ts}
           IN  /\ mem' = [mem EXCEPT !["d_dst"] = Store(@, ws)]
               /\ acc' = {Access("tone", t, "d_dst", ToneIdx(t[1], t[2], a)) : t \in ts}
        /\ prog' = [prog EXCEPT !["tone"] = @ \cup {b}]
        /\ stream' = Retire(n, b)
        /\ UNCHANGED <<pc, cur, status, dirOk, build, width, height, dstWidth,
                       dstHeight, offset, live, loads, written, aborted>>

Next ==
    \/ Mkdir
    \/ LoadPPM
    \/ LoadPPMThrow
    \/ NewGray
    \/ BadAlloc
    \/ CudaMalloc
    \/ CudaMallocFail
    \/ CudaMemcpy
    \/ CudaMemcpyFail
    \/ LaunchGray
    \/ NewDst
    \/ LaunchCrop
    \/ LaunchTone
    \/ SavePGM
    \/ SavePGMThrow
    \/ Free
    \/ NextImage
    \/ ExitSuccess
    \/ RunGrayBlock
    \/ RunCropBlock
    \/ RunToneBlock

Spec == Init /\ [][Next]_vars

(* -------- the tone kernel on its own, over every pixel value ----------- *)
\* a 1 x 1 image whose gray value is v, with cropKernel finished and
\* adjustShadowsHighlightsKernel launched
ToneInit ==
    /\ pc = "d2h_dst"
    /\ cur = 1
    /\ status = "running"
    /\ dirOk = TRUE
    /\ build \in Builds
    /\ width = 1 /\ height = 1
    /\ dstWidth = 1 /\ dstHeight = 1 /\ offset = 0
    /\ live = HostBufs \cup DevBufs
    /\ \E v \in Bytes :
          mem = [h_rgb |-> [i \in 0..2 |-> v], d_rgb |-> [i \in 0..2 |-> v],
                 h_gray |-> [i \in 0..0 |-> v], d_gray |-> [i \in 0..0 |-> v],
                 h_dst |-> Fresh(1), d_dst |-> [i \in 0..0 |-> v]]
    /\ stream = <<[k |-> "tone", a |-> [width |-> 1, height |-> 1],
                   pending |-> {<<0, 0>>}]>>
    /\ prog = [gray |-> {<<0, 0>>}, crop |-> {<<0, 0>>}, tone |-> {}]
    /\ acc = {}
    /\ loads = <<1>>
    /\ written = {}
    /\ aborted = {}

ToneNext == RunToneBlock

ToneSpec == ToneInit /\ [][ToneNext]_vars

(* ----------------------------- properties ------------------------------ *)
\* every block of kernel k of the image in flight has run
Done(k) == width > 0 /\ prog[k] = Blocks(GridSize)
Launched(k) == \E n \in 1..Len(stream) : stream[n].k = k
DstPixels == (0..(dstWidth - 1)) \X (0..(dstHeight - 1))
\* the gray value cropKernel stored at destination pixel p
ToneIn(p) == Read("d_gray", p[2] * width + p[1] + offset)
ToneOut(p) == Read("d_dst", p[2] * dstWidth + p[1])

\* C1: the window cropKernel is launched with is the centred square:
\* width = height = min(W, H), the offset (longer - shorter) / 2 lies on
\* the longer axis and the shorter axis has offset 0, so the window stays
\* inside the W x H source, for landscape and for portrait images.
C1_CenteredSquare ==
    \A n \in 1..Len(stream) :
        stream[n].k = "crop" =>
            LET a == stream[n].a
                d == (Max(width, height) - Min(width, height)) \div 2
            IN  /\ a.dstWidth = Min(width, height)
                /\ a.dstHeight = Min(width, height)
                /\ a.offsetX = (IF width > height THEN d ELSE 0)
                /\ a.offsetY = (IF height > width THEN d ELSE 0)
                /\ a.offsetX + a.dstWidth <= width
                /\ a.offsetY + a.dstHeight <= height

\* C2: once the tone kernel has finished, every pixel holds the gained
\* value clamped into 0..255: never a wrapped value, and 255 whenever the
\* 1.05 product of a highlight exceeds 255.
C2_ToneSaturates ==
    Done("tone") =>
        \A p \in DstPixels :
            LET v == ToneIn(p)
                gained == FxTrunc(FxMul(v, IF v <= ShadowLimit THEN GainShadow
                                                               ELSE GainHighlight))
            IN  v # Undef =>
                    /\ ToneOut(p) \in Bytes
                    /\ ToneOut(p) = Min(ByteMax, gained)
                    /\ (v > ShadowLimit /\ v * 105 > ByteMax * 100 => ToneOut(p) = ByteMax)

\* C3: when the process exits, on whatever path, no host or device buffer
\* of the image in flight is still allocated.
C3_NoLeakAtExit == pc = "exit" => live = {}

\* C4: the first failure ends the batch.  Images are loaded once each and
\* in list order; after a failure the process has exited with failure
\* status, every earlier image is written and no later one was loaded; the
\* exit status is success only if every image was written; nothing runs
\* after the exit.
C4_Inv ==
    /\ \A i \in 1..Len(loads) : loads[i] = i
    /\ Len(loads) \in {cur - 1, cur}
    /\ (aborted # {} =>
            /\ pc = "exit" /\ status = "failure"
            /\ aborted = {cur}
            /\ written = 1..(cur - 1))
    /\ (status = "success" => pc = "exit" /\ written = Images /\ aborted = {})
    /\ (pc = "exit" => status \in {"success", "failure"})
    /\ (status = "failure" => aborted # {})

C4_AbortOnFirstError == []C4_Inv /\ [][pc # "exit"]_vars

C4_Witness == pc = "exit" /\ status = "failure" /\ cur = 1 /\ Len(loads) = 1 /\ live # {}

\* C5: the kernels of one image run one after another in launch order: a
\* block of cropKernel runs only when rgbToGrayKernel has finished, a block
\* of the tone kernel (and so each d_dst cell it reads) only when cropKernel
\* has finished, at most one kernel is part-way through, and the host is
\* past a device-to-host copy only when the kernel producing it finished.
C5_KernelsOrdered ==
    /\ (prog["crop"] # {} => Done("gray"))
    /\ (prog["tone"] # {} => Done("crop"))
    /\ \A a \in acc : a.k = "tone" => Done("crop")
    /\ Cardinality({k \in Kernels : prog[k] # {} /\ ~Done(k)}) <= 1
    /\ (pc \in {"new_dst", "malloc_dst", "h2d_gray", "launch_crop", "launch_tone"}
            => Done("gray"))
    /\ (pc \in {"save", "free"} =>
            /\ Done("tone")
            /\ \A p \in DstPixels :
                   Read("h_dst", p[2] * dstWidth + p[1]) = ToneValue(ToneIn(p), build.cvt))

C5_Witness ==
    /\ prog["tone"] # {} /\ ~Done("tone")
    /\ Len(stream) = 1

\* C6: when the window lies inside the source, then as soon as cropKernel
\* has finished the destination has exactly dstWidth x dstHeight cells and
\* cell (x, y) holds source(x + offsetX, y + offsetY).
C6_CropCopiesWindow ==
    (/\ Done("crop") /\ prog["tone"] = {}
     /\ CropArgs.offsetX + dstWidth <= width
     /\ CropArgs.offsetY + dstHeight <= height) =>
        /\ DOMAIN mem["d_dst"] = 0..(dstWidth * dstHeight - 1)
        /\ \A x \in 0..(dstWidth - 1), y \in 0..(dstHeight - 1) :
               mem["d_dst"][y * dstWidth + x] =
                   mem["d_gray"][(y + CropArgs.offsetY) * width + (x + CropArgs.offsetX)]

C6_Witness ==
    /\ Done("crop") /\ prog["tone"] = {}
    /\ width > height /\ offset > 0 /\ dstWidth > 1
    /\ \A i \in DOMAIN mem["d_dst"] : mem["d_dst"][i] # Undef
    /\ mem["d_dst"][0] # mem["d_dst"][1]

\* C7: every access of a thread block comes from a work item inside the
\* kernel's width x height, and its index lies inside the allocated length
\* of the buffer: W*H*3 for rgb, W*H for gray, dstWidth*dstHeight for dst.
C7_AccessesInBounds ==
    \A a \in acc :
        /\ a.x < (IF a.k = "gray" THEN width ELSE dstWidth)
        /\ a.y < (IF a.k = "gray" THEN height ELSE dstHeight)
        /\ a.idx >= 0
        /\ a.idx < (CASE a.buf = "d_rgb" -> width * height * 3
                      [] a.buf = "d_gray" -> width * height
                      [] a.buf = "d_dst" -> dstWidth * dstHeight)
        /\ a.idx \in DOMAIN mem[a.buf]
        /\ (pc # "exit" => a.buf \in live)

C7_Witness ==
    /\ \E a \in acc : a.k = "crop" /\ a.buf = "d_gray" /\ a.idx > a.x
    /\ dstWidth < width
    /\ Cardinality(Blocks(GridSize)) > 1

\* C8: the tone kernel takes the 1.10 gain for every pixel up to and
\* including 128 and the 1.05 gain above: 128 becomes 140, 129 becomes 135,
\* a shadow v becomes floor(v * 1.10), a highlight whose product fits a byte
\* becomes floor(v * 1.05) up to the rounding of the float product, a
\* highlight whose product does not fit becomes 255 or the low byte of
\* floor(v * 1.05); and a tone block changes only cells of the buffer it is
\* given.
C8_Inv ==
    Done("tone") =>
        \A p \in DstPixels :
            LET v == ToneIn(p)
            IN  v # Undef =>
                    /\ (v = 128 => ToneOut(p) = 140)
                    /\ (v = 129 => ToneOut(p) = 135)
                    /\ (v <= 128 => ToneOut(p) = (v * 110) \div 100)
                    /\ (v > 128 /\ v * 105 < 256 * 100 =>
                            ToneOut(p) \in {(v * 105) \div 100 - 1, (v * 105) \div 100})
                    /\ (v * 105 >= 256 * 100 =>
                            ToneOut(p) \in {ByteMax, (v * 105) \div 100 - 256})

C8_InPlace ==
    prog'["tone"] # prog["tone"] /\ prog'["tone"] # {} =>
        /\ live' = live
        /\ DOMAIN mem'["d_dst"] = DOMAIN mem["d_dst"]
        /\ \A b \in (HostBufs \cup DevBufs) \ {"d_dst"} : mem'[b] = mem[b]
        /\ \A a \in acc' : a.buf = "d_dst"

C8_ToneBoundary == []C8_Inv /\ [][C8_InPlace]_vars

C8_Witness == Done("tone") /\ ToneIn(<<0, 0>>) = 128 /\ ToneOut(<<0, 0>>) = 140

\* C9: whenever rgbToGrayKernel is launched, every one of the
\* width*height*3 bytes of h_rgb was filled from the input file.
C9_NoPartialBuffer ==
    Launched("gray") =>
        /\ DOMAIN mem["h_rgb"] = 0..(width * height * 3 - 1)
        /\ \A i \in DOMAIN mem["h_rgb"] : mem["h_rgb"][i] # Undef

\* C10: an image is loaded only when every image before it is written and
\* none of their buffers is allocated or in use by the device; the buffers
\* alive at any time belong to the one image in flight; at the exit every
\* image that was started is either written or aborted, never both; and
\* every image started gets there: the device always has a block to run
\* while a kernel is queued, and every step moves the batch forward.
PcOrder ==
    <<"mkdir", "load", "new_gray", "malloc_rgb", "malloc_gray", "h2d_rgb",
      "launch_gray", "d2h_gray", "new_dst", "malloc_dst", "h2d_gray",
      "launch_crop", "launch_tone", "d2h_dst", "save", "free", "loop", "exit">>
PcIndex(p) == CHOOSE i \in 1..Len(PcOrder) : PcOrder[i] = p
BlocksRun == Cardinality(prog["gray"]) + Cardinality(prog["crop"]) + Cardinality(prog["tone"])
Rank ==
    IF pc = "exit" THEN (NumImages + 1) * Len(PcOrder) * 64
    ELSE (cur * Len(PcOrder) + PcIndex(pc)) * 64 + BlocksRun

C10_Inv ==
    /\ (pc \in {"load", "loop"} =>
            /\ live = {} /\ mem = NoMem /\ stream = <<>>
            /\ prog = NoProg)
    /\ (pc = "load" => written = 1..(cur - 1) /\ Len(loads) = cur - 1)
    /\ (live # {} => Len(loads) = cur /\ (cur \notin written \/ pc = "free"))
    /\ written \cap aborted = {}
    /\ (pc = "exit" => \A i \in 1..Len(loads) : i \in written \cup aborted)
    /\ \A n \in 1..Len(stream) : stream[n].pending # {} /\ stream[n].k \in Kernels
    /\ \E i \in 1..Len(PcOrder) : PcOrder[i] = pc
    /\ BlocksRun < 64

C10_Progress == Rank' > Rank

C10_Sequential == []C10_Inv /\ [][C10_Progress]_vars

C10_Witness == pc = "load" /\ cur = 2 /\ written = {1}
====
